---- MODULE Spec2Model ----
(***************************************************************************)
(* django-flows: the flow handler (flows/handler.py) and the flow          *)
(* components (flows/components.py) as a state machine.                    *)
(*                                                                         *)
(* A flow component class is written as its class name.  Python values    *)
(* that travel through handle() are records [k, v, t]: k is the kind of   *)
(* value, v its text, t the task id an URL carries.                        *)
(***************************************************************************)
EXTENDS Integers, Sequences, FiniteSets, TLC

(***************************************************************************)
(* Bounds of the model.                                                    *)
(***************************************************************************)
\* how many sessions (fresh task ids) handle_view may create in one run
MaxSessions == 1

(***************************************************************************)
(* Python values.                                                          *)
(***************************************************************************)
NoTask == <<>>

None == [k |-> "none", v |-> "", t |-> NoTask]

\* a str
Str(s) == [k |-> "str", v |-> s, t |-> NoTask]

\* a flow component class (inspect.isclass is true of it)
Cls(c) == [k |-> "cls", v |-> c, t |-> NoTask]

\* an instance of the Action class c
Inst(c) == [k |-> "inst", v |-> c, t |-> NoTask]

\* an HttpResponse that is not a redirect
Resp(tag) == [k |-> "resp", v |-> tag, t |-> NoTask]

\* an HttpResponseRedirect to url, with the task id the url carries
Redirect(url, tid) == [k |-> "redirect", v |-> url, t |-> tid]

\* a PossibleFlowPosition object, by its url_name
Pos(name) == [k |-> "pos", v |-> name, t |-> NoTask]

COMPLETE == Str("complete")

\* what get_initial_action_tree gave: the exception it raised or the list
Tree(exc, tree) == [k |-> "tree", v |-> exc, t |-> tree]

\* one call recorded in a request's log
Event(op, c, i, val) == [op |-> op, c |-> c, i |-> i, val |-> val]

\* the key of a state store call
Key(task_id) == [k |-> "key", v |-> "", t |-> task_id]

(***************************************************************************)
(* The declared flow components: two entry points, R (a Scaffold tree)     *)
(* and X (a lone Action).                                                  *)
(*                                                                         *)
(*            R                 X                                          *)
(*         /  |  \                                                         *)
(*        A   L3  B                                                        *)
(*      / | \    / \                                                       *)
(*    L1 'L2' L3 'L2' E                                                    *)
(*                                                                         *)
(* A and B declare their child L2 by name; E is a Scaffold with no         *)
(* children; B and E have no transition.                                   *)
(*                                                                         *)
(* The library's own classes Scaffold and Action are made by the metaclass *)
(* from the base FlowComponent, so they are flow component classes too:    *)
(* Scaffold with the empty action_set and no transition.                   *)
(***************************************************************************)
\* the classes of which issubclass(c, Scaffold) holds
Scaffolds == {"R", "A", "B", "E", "Scaffold"}

\* the classes of which issubclass(c, Action) holds
Actions == {"L1", "L2", "L3", "X", "Action"}

\* FlowComponentMeta.registry: class name -> class; __new__ registers every
\* class that has a base made by the metaclass, Scaffold and Action included
registry == Scaffolds \cup Actions

\* the entry points, in the order the url configuration registers them
EntryPoints == <<"R", "X">>

\* the lists of entry points a url configuration may register:
\* register_entry_point takes any class, the library's own included
EntryPointConfigurations == {EntryPoints, <<"Scaffold", "R">>, <<"Action">>}

\* the list a Scaffold class was declared with, as LazyActionSet stores it
action_set(c) ==
    CASE c = "R" -> <<Cls("A"), Cls("L3"), Cls("B")>>
      [] c = "A" -> <<Cls("L1"), Str("L2"), Cls("L3")>>
      [] c = "B" -> <<Str("L2"), Cls("E")>>
      [] OTHER   -> <<>>

\* whether the Scaffold class declares a transition
transition(c) == c \in {"R", "A"}

\* the number of entries of the class's preconditions list
preconditions(c) ==
    CASE c = "R"  -> 1
      [] c = "L1" -> 2
      [] OTHER    -> 0

\* the longest preconditions list
MaxPreconditions ==
    CHOOSE n \in {preconditions(c) : c \in registry} :
        \A c \in registry : preconditions(c) <= n

\* flow_component.url, handler.py line 78: [exc, val]; Scaffold and Action
\* declare no url (and no urls), so reading it raises AttributeError
url(c) ==
    CASE c = "R"  -> [exc |-> "", val |-> "r/"]
      [] c = "A"  -> [exc |-> "", val |-> "a/"]
      [] c = "B"  -> [exc |-> "", val |-> "b/"]
      [] c = "E"  -> [exc |-> "", val |-> "e/"]
      [] c = "L1" -> [exc |-> "", val |-> "l1/"]
      [] c = "L2" -> [exc |-> "", val |-> "l2/"]
      [] c = "L3" -> [exc |-> "", val |-> "l3/"]
      [] c = "X"  -> [exc |-> "", val |-> "x/"]
      [] OTHER    -> [exc |-> "AttributeError", val |-> ""]

\* config.FLOWS_TASK_ID_PARAM
FLOWS_TASK_ID_PARAM == "_flow_id"

(***************************************************************************)
(* dict helpers                                                            *)
(***************************************************************************)
EmptyDict == [x \in {} |-> None]

Put(d, key, val) == [x \in (DOMAIN d) \cup {key} |-> IF x = key THEN val ELSE d[x]]

Del(d, key) == [x \in (DOMAIN d) \ {key} |-> d[x]]

(***************************************************************************)
(* flows.statestore.state_store: a store of states by task id              *)
(***************************************************************************)
\* state_store.get_state: [exc, state]
get_state(store, task_id) ==
    IF task_id \in DOMAIN store
    THEN [exc |-> "", state |-> store[task_id]]
    ELSE [exc |-> "StateNotFound", state |-> None]

\* state_store.put_state
put_state(store, task_id, state) == Put(store, task_id, state)

\* state_store.delete
delete(store, task_id) == Del(store, task_id)

(***************************************************************************)
(* components.py                                                           *)
(***************************************************************************)
\* get_by_class_or_name: [exc, cls]
get_by_class_or_name(class_or_string) ==
    IF class_or_string.k = "str"
    THEN IF class_or_string.v \notin registry
         THEN [exc |-> "ImproperlyConfigured", cls |-> ""]
         ELSE [exc |-> "", cls |-> class_or_string.v]
    ELSE [exc |-> "", cls |-> class_or_string.v]

\* `FC in fci.action_set`: LazyActionSet overrides __getitem__, index and
\* __iter__ but not __contains__, so membership is list's own and compares FC
\* with the stored entries as they were declared
Contains(c, FC) == \E i \in 1..Len(action_set(c)) : action_set(c)[i] = Cls(FC)

RECURSIVE get_initial_action_tree(_)
\* get_initial_action_tree that goes down through the last child of a
\* Scaffold
get_initial_action_treeLastChild(cls) ==
    IF cls \in Actions
    THEN [exc |-> "", tree |-> <<cls>>]
    ELSE IF Len(action_set(cls)) = 0
    THEN [exc |-> "IndexError", tree |-> <<>>]
    ELSE LET Down(last_item) ==
                 IF last_item.exc # ""
                 THEN [exc |-> last_item.exc, tree |-> <<>>]
                 ELSE LET Below(rest) ==
                              IF rest.exc # "" THEN rest
                              ELSE [exc |-> "", tree |-> <<cls>> \o rest.tree]
                      IN  Below(get_initial_action_tree(last_item.cls))
         IN  Down(get_by_class_or_name(action_set(cls)[Len(action_set(cls))]))

\* Scaffold.get_initial_action_tree / Action.get_initial_action_tree: [exc, tree]
get_initial_action_tree(cls) ==
    IF cls \in Actions
    THEN [exc |-> "", tree |-> <<cls>>]
    ELSE IF Len(action_set(cls)) = 0
    THEN [exc |-> "IndexError", tree |-> <<>>]
    ELSE LET first_item == get_by_class_or_name(action_set(cls)[1])
         IN  IF first_item.exc # ""
             THEN [exc |-> first_item.exc, tree |-> <<>>]
             ELSE LET rest == get_initial_action_tree(first_item.cls)
                  IN  IF rest.exc # ""
                      THEN rest
                      ELSE [exc |-> "", tree |-> <<cls>> \o rest.tree]

\* a second class that is named L3 in the module of L3, as a class factory or
\* a redefinition of the class makes one
Twin == "L3 (second class)"

\* F.__name__
ClassName(F) == IF F = Twin THEN "L3" ELSE F

\* F.__module__: the application's module, or the library's for its own
\* classes
ModuleName(F) == IF F \in {"Scaffold", "Action"} THEN "flows.components" ELSE "app"

\* F.__module__ + '.' + F.__name__
FlowKey(F) == ModuleName(F) \o "." \o ClassName(F)

\* name_for_flow, on the dict _flow_ids: [ids, name]
name_for_flow(flow, ids) ==
    LET key == FlowKey(flow)
    IN  IF key \in DOMAIN ids
        THEN [ids |-> ids, name |-> ids[key]]
        ELSE LET name == ToString(Cardinality(DOMAIN ids))
             IN  [ids |-> Put(ids, key, name), name |-> name]

(***************************************************************************)
(* handler.py: PossibleFlowPosition                                        *)
(***************************************************************************)
\* '/'.join([name_for_flow(fc) for fc in components]): [ids, name]
RECURSIVE JoinNames(_, _)
JoinNames(components, ids) ==
    IF Len(components) = 0
    THEN [ids |-> ids, name |-> ""]
    ELSE LET n == name_for_flow(Head(components), ids)
             rest == JoinNames(Tail(components), n.ids)
         IN  [ids  |-> rest.ids,
              name |-> IF Len(components) = 1 THEN n.name
                       ELSE n.name \o "/" \o rest.name]

\* PossibleFlowPosition._url_name_from_components: [ids, name]
url_name_from_components(components, ids) ==
    LET j == JoinNames(components, ids)
    IN  [ids |-> j.ids, name |-> "flow_" \o j.name]

\* PossibleFlowPosition.__init__ on the globals [ids, positions]:
\* [ids, positions, name, replaced]; the object under construction is stored
\* under its url_name, `replaced` tells whether it took the place of the
\* object that was stored there
PossibleFlowPosition(flow_components, g) ==
    LET Store(n) ==
            [ids       |-> n.ids,
             positions |-> Put(g.positions, n.name, flow_components),
             name      |-> n.name,
             replaced  |-> n.name \in DOMAIN g.positions]
    IN  Store(url_name_from_components(flow_components, g.ids))

\* PossibleFlowPosition object for the url patterns: url(u, include(...)) nests
\* the url attributes of the components of the path
RECURSIVE UrlPath(_)
UrlPath(components) ==
    IF Len(components) = 0 THEN "/"
    ELSE UrlPath(SubSeq(components, 1, Len(components) - 1))
             \o url(components[Len(components)]).val

(***************************************************************************)
(* handler.py: FlowHandler._urls_for_flow, on [exc, ids, positions,        *)
(* routes]: exc is what the call raised; the call then returns no pattern  *)
(* list, and the positions it constructed before stay in all_positions     *)
(***************************************************************************)
RECURSIVE _urls_for_flow(_, _, _), UrlsForChildren(_, _, _, _)
_urls_for_flow(flow_component, prefix, g) ==
    LET components == prefix \o <<flow_component>>
        Raise(e, p) ==
            [exc |-> e, ids |-> p.ids, positions |-> p.positions,
             routes |-> EmptyDict]
        Patterns(p) ==
            \* lines 75-78: flow_component.url is read for every component
            IF url(flow_component).exc # ""
            THEN Raise(url(flow_component).exc, p)
            ELSE IF flow_component \in Scaffolds
            THEN UrlsForChildren(flow_component, 1, components,
                     [exc |-> "", ids |-> p.ids, positions |-> p.positions,
                      routes |-> g.routes])
            ELSE [exc |-> "", ids |-> p.ids, positions |-> p.positions,
                  routes |-> Put(g.routes, p.name,
                                 [url |-> UrlPath(components),
                                  position |-> components])]
    IN  Patterns(PossibleFlowPosition(components, g))

\* for child in flow_component.action_set, from the i-th child on: the
\* children in order, each resolved by LazyActionSet.__iter__; what a child's
\* call raises ends the loop
UrlsForChildren(flow_component, i, components, g) ==
    IF i > Len(action_set(flow_component)) \/ g.exc # "" THEN g
    ELSE IF get_by_class_or_name(action_set(flow_component)[i]).exc # ""
    THEN [exc |-> get_by_class_or_name(action_set(flow_component)[i]).exc,
          ids |-> g.ids, positions |-> g.positions, routes |-> EmptyDict]
    ELSE CHOOSE out \in
             {UrlsForChildren(flow_component, i + 1, components, after) :
                 after \in {_urls_for_flow(
                     get_by_class_or_name(action_set(flow_component)[i]).cls,
                     components, g)}} : TRUE

\* FlowHandler.urls: every registered entry point in turn, until a call
\* raises
RECURSIVE urls(_, _)
urls(entries, g) ==
    IF Len(entries) = 0 \/ g.exc # "" THEN g
    ELSE CHOOSE out \in
             {urls(Tail(entries), after) :
                 after \in {_urls_for_flow(Head(entries), <<>>, g)}} : TRUE

(***************************************************************************)
(* handler.py: FlowPositionInstance                                        *)
(***************************************************************************)
\* the loop of position_instance_for over self._flow_components[-2::-1]:
\* the index the loop variable fci is left at, 0 when the loop body never ran
\* (fci is still None)
ScanAncestors(components, FC) ==
    LET n == Len(components)
        found == {i \in 1..(n - 1) : Contains(components[i], FC)}
    IN  IF n < 2 THEN 0
        ELSE IF found # {} THEN CHOOSE i \in found : \A j \in found : j <= i
        ELSE 1

\* FlowPositionInstance.position_instance_for on the position `components`:
\* [exc, position, name, ids, positions, log]
position_instance_for(component_class_or_name, components, g) ==
    LET Fail(e, log) == [exc |-> e, position |-> <<>>, name |-> "",
                         ids |-> g.ids, positions |-> g.positions, log |-> log]
        New(FC, new_subtree, new_position, p) ==
            [exc |-> "", position |-> new_position,
             name |-> p.name, ids |-> p.ids, positions |-> p.positions,
             log |-> <<Event("get_initial_action_tree", FC.cls, 0,
                             Tree("", new_subtree.tree)),
                       Event("PossibleFlowPosition", FC.cls,
                             IF p.replaced THEN 1 ELSE 0, Pos(p.name))>>]
        Build(FC, tree_root, new_subtree) ==
            IF new_subtree.exc # ""
            THEN Fail(new_subtree.exc,
                      <<Event("get_initial_action_tree", FC.cls, 0,
                              Tree(new_subtree.exc, <<>>))>>)
            ELSE New(FC, new_subtree, tree_root \o new_subtree.tree,
                     PossibleFlowPosition(tree_root \o new_subtree.tree, g))
        From(FC, at) ==
            \* self._flow_components.index(None)
            IF at = 0 THEN Fail("ValueError", <<>>)
            ELSE Build(FC, SubSeq(components, 1, at), get_initial_action_tree(FC.cls))
        Scan(FC) ==
            IF FC.exc # "" THEN Fail(FC.exc, <<>>)
            ELSE From(FC, ScanAncestors(components, FC.cls))
    IN  Scan(get_by_class_or_name(component_class_or_name))

\* django's reverse(url_name): the path of the url pattern of that name
reverse(name, routes) ==
    IF name \in DOMAIN routes
    THEN [exc |-> "", url |-> routes[name].url]
    ELSE [exc |-> "NoReverseMatch", url |-> ""]

\* FlowPositionInstance.get_absolute_url of an instance of the position named
\* `name` bound to `state`: [exc, val]; the reversed paths hold no '?', so the
\* separator is '?'
get_absolute_url(name, state, routes) ==
    LET r == reverse(name, routes)
    IN  IF r.exc # "" THEN [exc |-> r.exc, val |-> None]
        ELSE [exc |-> "",
              val |-> Redirect(r.url \o "?" \o FLOWS_TASK_ID_PARAM \o "=", state._id)]

\* Action.send_to, through link_to: redirect(
\* self._flow_position_instance.position_instance_for(class_or_name)
\*     .get_absolute_url()), called on the Action of the position
\* `components`: [exc, response, ids, positions, log]
send_to(components, state, class_or_name, g, routes) ==
    LET Out(e, resp, p, log) ==
            [exc |-> e, response |-> resp, ids |-> p.ids,
             positions |-> p.positions, log |-> log]
        To(p) ==
            LET called == p.log \o
                          <<Event("position_instance_for", class_or_name.v, 0,
                                  IF p.exc = "" THEN Pos(p.name) ELSE None)>>
                Url(u) == Out(u.exc, u.val, p, called)
            IN  IF p.exc # ""
                THEN Out(p.exc, None, p, called)
                ELSE Url(get_absolute_url(p.name, state, routes))
    IN  To(position_instance_for(class_or_name, components, g))

(***************************************************************************)
(* Task ids                                                                *)
(***************************************************************************)
TaskIdLen == 32

HexDigits == <<"0", "1", "2", "3", "4", "5", "6", "7",
               "8", "9", "a", "b", "c", "d", "e", "f">>

HexChars == {HexDigits[i] : i \in 1..16}

\* re.match('^[0-9a-f]{32}$', task_id); '$' matches at the end and also just
\* before a newline that ends the string
MatchesTaskId(task_id) ==
    /\ Len(task_id) \in {TaskIdLen, TaskIdLen + 1}
    /\ \A i \in 1..TaskIdLen : task_id[i] \in HexChars
    /\ Len(task_id) = TaskIdLen + 1 => task_id[TaskIdLen + 1] = "\n"

\* re.sub('-', '', str(uuid.uuid4())): the n-th value drawn, never drawn before
uuid4(n) ==
    [i \in 1..TaskIdLen |->
        IF i = TaskIdLen THEN HexDigits[(n % 16) + 1]
        ELSE IF i = TaskIdLen - 1 THEN HexDigits[((n \div 16) % 16) + 1]
        ELSE "0"]

\* a new session's state, handler.py line 38; the application's fields
\* _on_complete and data are absent ("" and 0)
NewState(task_id) == [_id |-> task_id, _on_complete |-> "", data |-> 0]

NoState == NewState(NoTask)

(***************************************************************************)
(* The requests a client may send and what the application's own code      *)
(* (preconditions, prepare, the Action's view, transitions) may answer.    *)
(***************************************************************************)
Reqs == {"r1", "r2"}

Methods == {"GET", "POST"}

NotHex == <<"n", "o", "t", "-", "h", "e", "x">>

UpperHex == [i \in 1..TaskIdLen |-> IF i = 1 THEN "A" ELSE "0"]

\* the values of request.REQUEST[FLOWS_TASK_ID_PARAM] a client may send
TaskParams ==
    {uuid4(n) : n \in 1..(2 * MaxSessions)}
        \cup {NotHex, UpperHex, uuid4(2) \o <<"\n">>}

PreconditionValues == {None, Resp("precondition")}

PrepareValues == {COMPLETE, Cls("L3"), Redirect("/login/", NoTask)}

DispatchValues ==
    {COMPLETE, Resp("page"), Redirect("/elsewhere/", NoTask), Inst("L3")}
        \cup {Cls(c) : c \in {"A", "B", "E", "L2", "L3"}}
        \cup {Str(c) : c \in {"L3", "Action", "Ghost"}}

\* the classes and names the Action's view may pass to self.send_to
SendToValues ==
    {Cls("L2"), Cls("L3"), Str("L2"), Str("Scaffold"), Str("Ghost")}

\* what the Action's view does: it returns a value, or it returns
\* self.send_to(val)
ViewBehaviours ==
    [op : {"return"}, val : DispatchValues] \cup [op : {"send_to"}, val : SendToValues]

Mutations == {"none", "_on_complete"}

\* what a transition's get_next may return: the positions are those of the
\* url patterns that end in L3
TransitionValues(routes) ==
    {COMPLETE, Cls("L3"), Cls("L2"), Str("L3")}
        \cup {Pos(n) : n \in {m \in DOMAIN routes :
                 routes[m].position[Len(routes[m].position)] = "L3"}}

(***************************************************************************)
(* State                                                                   *)
(***************************************************************************)
VARIABLES
    entry_points,   \* FlowHandler._entry_points
    built,          \* whether FlowHandler.urls has been evaluated
    flow_ids,       \* components._flow_ids
    all_positions,  \* PossibleFlowPosition.all_positions: url_name -> components
    urlpatterns,    \* the named url patterns: url_name -> [url, position]
    state_store,    \* flows.statestore.state_store: task id -> state
    uuids,          \* how many uuid4 values have been drawn
    req             \* the requests being handled

vars == <<entry_points, built, flow_ids, all_positions, urlpatterns,
          state_store, uuids, req>>

Idle ==
    [pc |-> "idle", position |-> <<>>, name |-> "", method |-> "",
     has_param |-> FALSE, task_id |-> NoTask, state |-> NoState,
     loaded |-> NoState,
     response |-> None, folded |-> None, raised |-> "", log |-> <<>>]

Init ==
    /\ entry_points = <<>>
    /\ built = FALSE
    /\ flow_ids = EmptyDict
    /\ all_positions = EmptyDict
    /\ urlpatterns = EmptyDict
    /\ state_store = EmptyDict
    /\ uuids = 0
    /\ req = [r \in Reqs |-> Idle]

(***************************************************************************)
(* FlowHandler: start-up                                                   *)
(***************************************************************************)
\* whether the list a is the beginning of the list b
IsPrefix(a, b) == Len(a) <= Len(b) /\ a = SubSeq(b, 1, Len(a))

\* FlowHandler.register_entry_point
register_entry_point(flow_component) ==
    /\ ~built
    /\ \E configuration \in EntryPointConfigurations :
          IsPrefix(Append(entry_points, flow_component), configuration)
    /\ entry_points' = Append(entry_points, flow_component)
    /\ UNCHANGED <<built, flow_ids, all_positions, urlpatterns, state_store,
                   uuids, req>>

\* the url configuration reads FlowHandler.urls once every entry point is
\* registered; when urls raises there are no url patterns, and no request is
\* routed to a view
Urls ==
    /\ ~built
    /\ entry_points \in EntryPointConfigurations
    /\ \E patterns \in {urls(entry_points,
                             [exc |-> "", ids |-> flow_ids,
                              positions |-> all_positions,
                              routes |-> urlpatterns])} :
          /\ flow_ids' = patterns.ids
          /\ all_positions' = patterns.positions
          /\ urlpatterns' = IF patterns.exc = "" THEN patterns.routes ELSE urlpatterns
          /\ built' = (patterns.exc = "")
    /\ UNCHANGED <<entry_points, state_store, uuids, req>>

(***************************************************************************)
(* FlowHandler._view: handle_view                                          *)
(***************************************************************************)
\* _get_state that puts the new state under the task id it was asked for
_get_stateUnderRequestedId(task_id, create, store, n) ==
    IF ~MatchesTaskId(task_id)
    THEN [exc |-> "StateNotFound", state |-> NoState, store |-> store,
          uuids |-> n, log |-> <<>>]
    ELSE IF get_state(store, task_id).exc = ""
    THEN [exc |-> "", state |-> get_state(store, task_id).state, store |-> store,
          uuids |-> n, log |-> <<Event("get_state", "", 0, Key(task_id))>>]
    ELSE IF ~create
    THEN [exc |-> "StateNotFound", state |-> NoState, store |-> store,
          uuids |-> n, log |-> <<Event("get_state", "", 0, Key(task_id))>>]
    ELSE [exc |-> "", state |-> NewState(uuid4(n + 1)),
          store |-> put_state(store, task_id, NewState(uuid4(n + 1))),
          uuids |-> n + 1,
          log |-> <<Event("get_state", "", 0, Key(task_id)),
                    Event("put_state", "", 0, Key(task_id))>>]

\* FlowHandler._get_state on the store, with n uuid4 values drawn so far:
\* [exc, state, store, uuids, log]
_get_state(task_id, create, store, n) ==
    LET get == <<Event("get_state", "", 0, Key(task_id))>>
    IN  IF ~MatchesTaskId(task_id)
        THEN [exc |-> "StateNotFound", state |-> NoState, store |-> store,
              uuids |-> n, log |-> <<>>]
        ELSE IF get_state(store, task_id).exc = ""
        THEN [exc |-> "", state |-> get_state(store, task_id).state, store |-> store,
              uuids |-> n, log |-> get]
        ELSE IF ~create
        THEN [exc |-> "StateNotFound", state |-> NoState, store |-> store,
              uuids |-> n, log |-> get]
        ELSE LET new_id == uuid4(n + 1)
             IN  [exc |-> "", state |-> NewState(new_id),
                  store |-> put_state(store, new_id, NewState(new_id)),
                  uuids |-> n + 1,
                  log |-> get \o <<Event("put_state", "", 0, Key(new_id))>>]

\* handle_view, lines 49-58, for the url pattern `name`: the task id of the
\* request (has_param: whether the request carries one), _get_state, and
\* position.create_instance(state)
handle_view(r, name, method, has_param, param) ==
    /\ built
    /\ req[r].pc = "idle"
    /\ has_param \/ uuids + 2 <= 2 * MaxSessions
    /\ LET task_id == IF has_param THEN param ELSE uuid4(uuids + 1)
           drawn   == IF has_param THEN uuids ELSE uuids + 1
           got     == _get_state(task_id, ~has_param, state_store, drawn)
       IN  /\ state_store' = got.store
           /\ uuids' = got.uuids
           /\ req' = [req EXCEPT ![r] =
                  [pc       |-> IF got.exc # "" THEN "done" ELSE "check_preconditions",
                   position |-> urlpatterns[name].position,
                   name     |-> name,
                   method   |-> method,
                   has_param |-> has_param,
                   task_id  |-> task_id,
                   state    |-> got.state,
                   loaded   |-> got.state,
                   response |-> None,
                   folded   |-> None,
                   raised   |-> got.exc,
                   log      |-> got.log]]
    /\ UNCHANGED <<entry_points, built, flow_ids, all_positions, urlpatterns>>

(***************************************************************************)
(* FlowPositionInstance.handle                                             *)
(***************************************************************************)
\* FlowComponent.check_preconditions of component c, rets[i] being what the
\* i-th precondition's process returns: [ret, log]
check_preconditions(c, rets) ==
    LET failing == {i \in 1..preconditions(c) : rets[i] # None}
        stop    == IF failing = {} THEN preconditions(c)
                   ELSE CHOOSE i \in failing : \A j \in failing : i <= j
    IN  [ret |-> IF failing = {} THEN None ELSE rets[stop],
         log |-> [i \in 1..stop |-> Event("process", c, i, rets[i])]]

\* handle, lines 211-212: check_preconditions on each component in turn; what
\* it returns is not looked at
RECURSIVE PreconditionsLog(_, _)
PreconditionsLog(components, rets) ==
    IF Len(components) = 0 THEN <<>>
    ELSE check_preconditions(Head(components), rets[1]).log
             \o PreconditionsLog(Tail(components), Tail(rets))

CheckPreconditions(r) ==
    /\ req[r].pc = "check_preconditions"
    /\ \E rets \in [1..Len(req[r].position) ->
                        [1..MaxPreconditions -> PreconditionValues]] :
          req' = [req EXCEPT ![r].pc = "prepare",
                             ![r].log = @ \o PreconditionsLog(req[r].position, rets)]
    /\ UNCHANGED <<entry_points, built, flow_ids, all_positions, urlpatterns,
                   state_store, uuids>>

\* PrepareLoop without the break of line 221: every component's prepare is
\* called and the last answer stands
PrepareLoopNoBreak(components, rets) ==
    [response |-> rets[Len(components)],
     log |-> [i \in 1..Len(components) |-> Event("prepare", components[i], i, rets[i])]]

\* handle, lines 215-221: prepare on each component in turn until one returns
\* a response; rets[i] is what the i-th component's prepare returns:
\* [response, log]
PrepareLoop(components, rets) ==
    LET answering == {i \in 1..Len(components) : rets[i] # None}
        stop      == IF answering = {} THEN Len(components)
                     ELSE CHOOSE i \in answering : \A j \in answering : i <= j
    IN  [response |-> IF answering = {} THEN None ELSE rets[stop],
         log |-> [i \in 1..stop |-> Event("prepare", components[i], i, rets[i])]]

Prepare(r) ==
    /\ req[r].pc = "prepare"
    /\ \E rets \in [1..Len(req[r].position) -> {None} \cup PrepareValues] :
          LET p == PrepareLoop(req[r].position, rets)
          IN  req' = [req EXCEPT
                  ![r].pc = IF p.response = None THEN "dispatch" ELSE "handle_response",
                  ![r].response = p.response,
                  ![r].log = @ \o p.log]
    /\ UNCHANGED <<entry_points, built, flow_ids, all_positions, urlpatterns,
                   state_store, uuids>>

\* what the Action's view does to the state it shares with the instance
Mutate(state, mutation) ==
    CASE mutation = "_on_complete" -> [state EXCEPT !._on_complete = "/done/"]
      [] mutation = "data"         -> [state EXCEPT !.data = 1]
      [] OTHER                     -> state

\* handle, lines 223-231: the Action's dispatch returns `ret`:
\* [response, log]
DispatchAction(components, method, ret) ==
    LET action == components[Len(components)]
    IN  [response |-> ret,
         log |-> <<Event("dispatch", action, 0, ret)>>
                 \o IF method = "GET" /\ ret.k # "redirect"
                    THEN <<Event("add_to_history", action, 0, None)>>
                    ELSE <<>>]

\* handle, line 225, with the Action's view doing `view`: what it returns
\* goes on as DispatchAction tells; send_to runs inside dispatch, and what
\* it raises leaves dispatch and handle:
\* [exc, response, ids, positions, log]
DispatchView(components, method, state, view, g, routes) ==
    LET action == components[Len(components)]
        Gave(d) ==
            [exc |-> "", response |-> d.response, ids |-> g.ids,
             positions |-> g.positions, log |-> d.log]
        Sent(s) ==
            IF s.exc # ""
            THEN [exc |-> s.exc, response |-> None, ids |-> s.ids,
                  positions |-> s.positions,
                  log |-> s.log \o <<Event("dispatch", action, 0, None)>>]
            ELSE [exc |-> "", response |-> s.response, ids |-> s.ids,
                  positions |-> s.positions,
                  log |-> s.log \o DispatchAction(components, method, s.response).log]
    IN  IF view.op = "return"
        THEN Gave(DispatchAction(components, method, view.val))
        ELSE Sent(send_to(components, state, view.val, g, routes))

Dispatch(r) ==
    /\ req[r].pc = "dispatch"
    /\ \E view \in ViewBehaviours, mutation \in Mutations :
          \E d \in {DispatchView(req[r].position, req[r].method,
                                  Mutate(req[r].state, mutation), view,
                                  [ids |-> flow_ids, positions |-> all_positions],
                                  urlpatterns)} :
              /\ flow_ids' = d.ids
              /\ all_positions' = d.positions
              /\ req' = [req EXCEPT
                     ![r].pc = IF d.exc # "" THEN "done" ELSE "handle_response",
                     ![r].state = Mutate(@, mutation),
                     ![r].response = d.response,
                     ![r].raised = d.exc,
                     ![r].log = @ \o d.log]
    /\ UNCHANGED <<entry_points, built, urlpatterns, state_store, uuids>>

\* handle_response of a Scaffold that passes COMPLETE on when it has no
\* transition
handle_responsePassesOn(c, response, next) ==
    [exc |-> "",
     response |-> IF c \in Actions \/ response # COMPLETE \/ ~transition(c)
                  THEN response ELSE next,
     log |-> <<Event("handle_response", c, 0, response)>>
             \o IF c \in Scaffolds /\ response = COMPLETE /\ transition(c)
                THEN <<Event("get_next", c, 0, next)>> ELSE <<>>]

\* handle_response of a Scaffold that asks its transition whatever the
\* response is
handle_responseAlwaysAsks(c, response, next) ==
    IF c \in Actions
    THEN [exc |-> "", response |-> response,
          log |-> <<Event("handle_response", c, 0, response)>>]
    ELSE IF ~transition(c)
    THEN [exc |-> "ImproperlyConfigured", response |-> None,
          log |-> <<Event("handle_response", c, 0, response)>>]
    ELSE [exc |-> "", response |-> next,
          log |-> <<Event("handle_response", c, 0, response),
                    Event("get_next", c, 0, next)>>]

\* FlowComponent.handle_response (an Action) and Scaffold.handle_response of
\* component c, next being what the transition's get_next returns:
\* [exc, response, log]
handle_response(c, response, next) ==
    LET called == <<Event("handle_response", c, 0, response)>>
    IN  IF c \in Actions \/ response # COMPLETE
        THEN [exc |-> "", response |-> response, log |-> called]
        ELSE IF ~transition(c)
        THEN [exc |-> "ImproperlyConfigured", response |-> None, log |-> called]
        ELSE [exc |-> "", response |-> next,
              log |-> called \o <<Event("get_next", c, 0, next)>>]

\* handle, lines 234-235: handle_response on components i, i-1, .., 1
RECURSIVE HandleResponses(_, _, _, _)
HandleResponses(components, i, response, nexts) ==
    IF i = 0 THEN [exc |-> "", response |-> response, log |-> <<>>]
    ELSE LET h == handle_response(components[i], response, nexts[components[i]])
         IN  IF h.exc # "" THEN h
             ELSE LET up == HandleResponses(components, i - 1, h.response, nexts)
                  IN  [exc |-> up.exc, response |-> up.response,
                       log |-> h.log \o up.log]

HandleResponse(r) ==
    /\ req[r].pc = "handle_response"
    /\ \E nexts \in [{c \in Scaffolds : transition(c)} -> TransitionValues(urlpatterns)] :
          LET padded == [c \in registry |-> IF c \in DOMAIN nexts THEN nexts[c] ELSE None]
              h == HandleResponses(req[r].position, Len(req[r].position),
                                   req[r].response, padded)
          IN  req' = [req EXCEPT
                  ![r].pc = IF h.exc # "" THEN "done" ELSE "resolve",
                  ![r].response = h.response,
                  ![r].folded = h.response,
                  ![r].raised = h.exc,
                  ![r].log = @ \o h.log]
    /\ UNCHANGED <<entry_points, built, flow_ids, all_positions, urlpatterns,
                   state_store, uuids>>

\* CompleteFlow that leaves the task state in the store
CompleteFlowKeepsState(state, store) ==
    IF state._on_complete = ""
    THEN [exc |-> "ImproperlyConfigured", response |-> None, store |-> store,
          log |-> <<>>]
    ELSE [exc |-> "", response |-> Redirect(state._on_complete, NoTask),
          store |-> store, log |-> <<>>]

\* CompleteFlow that removes the task state before it looks for _on_complete
CompleteFlowDeletesFirst(state, store) ==
    IF state._on_complete = ""
    THEN [exc |-> "ImproperlyConfigured", response |-> None,
          store |-> delete(store, state._id),
          log |-> <<Event("delete", "", 0, Key(state._id))>>]
    ELSE [exc |-> "", response |-> Redirect(state._on_complete, NoTask),
          store |-> delete(store, state._id),
          log |-> <<Event("delete", "", 0, Key(state._id))>>]

\* handle, lines 238-249, the whole flow finished: [exc, response, store, log]
CompleteFlow(state, store) ==
    IF state._on_complete = ""
    THEN [exc |-> "ImproperlyConfigured", response |-> None, store |-> store,
          log |-> <<>>]
    ELSE [exc |-> "", response |-> Redirect(state._on_complete, NoTask),
          store |-> delete(store, state._id),
          log |-> <<Event("delete", "", 0, Key(state._id))>>]

\* UpdateState that does not write the state back
UpdateStateSkipped(state, store) == [store |-> store, log |-> <<>>]

\* UpdateState that keeps the _on_complete another request stored meanwhile
\* when its own state has none
UpdateStateMerged(state, store) ==
    [store |-> put_state(store, state._id,
                   IF state._id \in DOMAIN store /\ state._on_complete = ""
                   THEN [state EXCEPT !._on_complete = store[state._id]._on_complete]
                   ELSE state),
     log |-> <<Event("put_state", "", 0, Key(state._id))>>]

\* handle, lines 251-253: [store, log]
UpdateState(state, store) ==
    [store |-> put_state(store, state._id, state),
     log |-> <<Event("put_state", "", 0, Key(state._id))>>]

\* handle, lines 255-269, what the response is turned into:
\* [exc, response, ids, positions, log]
RedirectFor(components, state, response, g, routes) ==
    LET Out(e, resp, ids, positions, log) ==
            [exc |-> e, response |-> resp, ids |-> ids, positions |-> positions,
             log |-> log]
    IN  IF response.k = "cls"
        THEN LET To(p) ==
                     LET called == p.log \o
                                   <<Event("position_instance_for", response.v, 0,
                                           IF p.exc = "" THEN Pos(p.name) ELSE None)>>
                         Url(u) == Out(u.exc, u.val, p.ids, p.positions, called)
                     IN  IF p.exc # ""
                         THEN Out(p.exc, None, p.ids, p.positions, called)
                         ELSE Url(get_absolute_url(p.name, state, routes))
             IN  To(position_instance_for(response, components, g))
        \* neither Action nor a base of it defines get_absolute_url
        ELSE IF response.k = "inst"
        THEN Out("AttributeError", None, g.ids, g.positions, <<>>)
        \* get_by_class_or_name gives a class, and a class has no
        \* get_absolute_url
        ELSE IF response.k = "str"
        THEN Out(IF get_by_class_or_name(response).exc # ""
                 THEN get_by_class_or_name(response).exc ELSE "AttributeError",
                 None, g.ids, g.positions, <<>>)
        ELSE Out("", response, g.ids, g.positions, <<>>)

\* handle, lines 238-271, on the response the components left:
\* [exc, response, store, ids, positions, log]
FinalResolution(components, state, response, store, g, routes) ==
    IF response = COMPLETE
    THEN LET c == CompleteFlow(state, store)
         IN  [exc |-> c.exc, response |-> c.response, store |-> c.store,
              ids |-> g.ids, positions |-> g.positions, log |-> c.log]
    ELSE LET Both(u, t) ==
                 [exc |-> t.exc, response |-> t.response, store |-> u.store,
                  ids |-> t.ids, positions |-> t.positions, log |-> u.log \o t.log]
         IN  Both(UpdateState(state, store),
                  RedirectFor(components, state, response, g, routes))

Resolve(r) ==
    /\ req[r].pc = "resolve"
    /\ \E f \in {FinalResolution(req[r].position, req[r].state, req[r].response,
                                   state_store,
                                   [ids |-> flow_ids, positions |-> all_positions],
                                   urlpatterns)} :
           /\ state_store' = f.store
           /\ flow_ids' = f.ids
           /\ all_positions' = f.positions
           /\ req' = [req EXCEPT
                  ![r].pc = "done",
                  ![r].response = f.response,
                  ![r].raised = f.exc,
                  ![r].log = @ \o f.log]
    /\ UNCHANGED <<entry_points, built, urlpatterns, uuids>>

\* handle_view returns what handle returned, or the exception leaves it; the
\* instance is dropped
Return(r) ==
    /\ req[r].pc = "done"
    /\ req' = [req EXCEPT ![r] = Idle]
    /\ UNCHANGED <<entry_points, built, flow_ids, all_positions, urlpatterns,
                   state_store, uuids>>

(***************************************************************************)
(* Specification: one request at a time                                    *)
(***************************************************************************)
Next ==
    \/ \E c \in registry : register_entry_point(c)
    \/ Urls
    \/ \E name \in DOMAIN urlpatterns, method \in Methods :
          \/ handle_view("r1", name, method, FALSE, NoTask)
          \/ \E param \in TaskParams : handle_view("r1", name, method, TRUE, param)
    \/ CheckPreconditions("r1")
    \/ Prepare("r1")
    \/ Dispatch("r1")
    \/ HandleResponse("r1")
    \/ Resolve("r1")
    \/ Return("r1")

Spec == Init /\ [][Next]_vars

(***************************************************************************)
(* Specification: two requests handled concurrently, each in its own       *)
(* execution context with its own copy of the state it read; the second    *)
(* carries the task id the first carries and arrives while the first is    *)
(* under way; the steps of handle interleave between the store calls       *)
(***************************************************************************)
\* the url patterns the concurrent clients ask for: the entry point that is
\* a single Action
ConcurrentRoutes(routes) ==
    {name \in DOMAIN routes : routes[name].position = <<"X">>}

\* what the Action's view answers to the concurrent requests: the flow is
\* complete, a page, or a class to redirect to
ConcurrentDispatchValues == {COMPLETE, Resp("page"), Cls("L3")}

NextConcurrent ==
    \/ \E c \in registry : register_entry_point(c)
    \/ Urls
    \/ \E name \in ConcurrentRoutes(urlpatterns), method \in Methods :
          \/ handle_view("r1", name, method, FALSE, NoTask)
          \/ \E param \in TaskParams : handle_view("r1", name, method, TRUE, param)
          \/ /\ req["r1"].pc # "idle"
             /\ req["r1"].has_param
             /\ handle_view("r2", name, method, TRUE, req["r1"].task_id)
    \/ \E r \in Reqs : CheckPreconditions(r)
    \/ \E r \in Reqs : Prepare(r)
    \/ \E r \in Reqs : Dispatch(r) /\ req'[r].response \in ConcurrentDispatchValues
    \/ \E r \in Reqs : HandleResponse(r)
    \/ \E r \in Reqs : Resolve(r)
    \/ \E r \in Reqs : Return(r)

SpecConcurrent == Init /\ [][NextConcurrent]_vars

(***************************************************************************)
(* Specification of the naming: name_for_flow and url_name applied to      *)
(* classes and paths in any order                                          *)
(***************************************************************************)
\* the longest path a url_name is asked for
MaxPathLen == 2

\* the classes that are named
NamedFlows == {"R", "A", "B", "L1", "L3", Twin}

NamedPaths == UNION {[1..n -> NamedFlows] : n \in 1..MaxPathLen}

\* name_for_flow(flow)
NameForFlow(flow) ==
    /\ flow_ids' = name_for_flow(flow, flow_ids).ids
    /\ UNCHANGED <<entry_points, built, all_positions, urlpatterns, state_store,
                   uuids, req>>

\* PossibleFlowPosition.url_name of a position with the components `path`
UrlName(path) ==
    /\ flow_ids' = url_name_from_components(path, flow_ids).ids
    /\ UNCHANGED <<entry_points, built, all_positions, urlpatterns, state_store,
                   uuids, req>>

NextNames ==
    \/ \E flow \in NamedFlows : NameForFlow(flow)
    \/ \E path \in NamedPaths : UrlName(path)

SpecNames == Init /\ [][NextNames]_vars

(***************************************************************************)
(* Properties                                                              *)
(***************************************************************************)
\* the places of a log where one of the calls `ops` is recorded
Calls(log, ops) == {i \in 1..Len(log) : log[i].op \in ops}

\* the places where a call among `ops` gave something other than None
Answers(log, ops) == {i \in Calls(log, ops) : log[i].val # None}

Least(S) == CHOOSE i \in S : \A j \in S : i <= j

\* the Action of the request's position
Leaf(r) == req[r].position[Len(req[r].position)]

\* C1: the first precondition that returns something other than None ends the
\* request: no later precondition, no prepare and no dispatch is called, and
\* what handle returns is that precondition's result.
C1_PreconditionShortCircuits ==
    \A r \in Reqs :
        LET log == req[r].log
            failing == Answers(log, {"process"})
        IN  failing # {} =>
              /\ \A j \in (Least(failing) + 1)..Len(log) :
                    log[j].op \notin {"process", "prepare", "dispatch"}
              /\ req[r].pc = "done" /\ req[r].raised = ""
                    => req[r].response = log[Least(failing)].val

\* C2: prepare is called on the components root to leaf; once one prepare
\* returns something other than None no further prepare is called, dispatch is
\* not called, nothing is added to the history, and the value is what the
\* leaf's handle_response receives first.
C2_PrepareShortCircuits ==
    \A r \in Reqs :
        LET log == req[r].log
            prepares == SelectSeq(log, LAMBDA e : e.op = "prepare")
            answering == Answers(log, {"prepare"})
        IN  /\ \A i \in 1..Len(prepares) : prepares[i].c = req[r].position[i]
            /\ answering # {} =>
                 LET first == Least(answering)
                 IN  /\ \A j \in (first + 1)..Len(log) :
                           log[j].op \notin {"prepare", "dispatch", "add_to_history"}
                     /\ req[r].pc = "handle_response" => req[r].response = log[first].val
                     /\ Len(log) > first =>
                           log[first + 1] =
                               Event("handle_response", Leaf(r), 0, log[first].val)

\* a GET request finished whose root component's prepare answered
C2_Witness ==
    \E r \in Reqs :
        /\ req[r].pc = "done" /\ req[r].raised = "" /\ req[r].method = "GET"
        /\ Len(req[r].position) = 3
        /\ \E i \in Answers(req[r].log, {"prepare"}) :
              req[r].log[i].c = req[r].position[1]

\* the children of Scaffold class c, as iterating its action_set yields them
IsChild(c, T) ==
    \E i \in 1..Len(action_set(c)) :
        /\ get_by_class_or_name(action_set(c)[i]).exc = ""
        /\ get_by_class_or_name(action_set(c)[i]).cls = T

\* the ancestors of the request's leaf that have T among their children
AncestorsWith(r, T) ==
    {k \in 1..(Len(req[r].position) - 1) : IsChild(req[r].position[k], T)}

Greatest(S) == CHOOSE i \in S : \A j \in S : j <= i

\* C3: position_instance_for(T) fails whenever T is a child of no ancestor of
\* the current leaf: it returns no position instance, and the request that
\* resolves T ends with an error.
C3_RedirectOutsideAncestorsFails ==
    \A r \in Reqs :
        \A i \in Calls(req[r].log, {"position_instance_for"}) :
            AncestorsWith(r, req[r].log[i].c) = {} =>
                /\ req[r].log[i].val = None
                /\ req[r].pc = "done" => req[r].raised # ""

\* C4: for a target T that is a child of an ancestor and has an initial action
\* tree, position_instance_for(T) gives the position [C0..Ck] + that tree for
\* the closest such ancestor Ck, bound to the same state: the redirect carries
\* the state's task id.
C4_RedirectToClosestAncestor ==
    \A r \in Reqs :
        \A i \in Calls(req[r].log, {"position_instance_for"}) :
            LET T == req[r].log[i].c
                returned == req[r].log[i].val
            IN  AncestorsWith(r, T) # {} /\ get_initial_action_tree(T).exc = "" =>
                  /\ returned.k = "pos"
                  /\ returned.v \in DOMAIN all_positions
                  /\ all_positions[returned.v] =
                        SubSeq(req[r].position, 1, Greatest(AncestorsWith(r, T)))
                            \o get_initial_action_tree(T).tree
                  /\ req[r].pc = "done" =>
                        /\ req[r].raised = ""
                        /\ req[r].response.k = "redirect"
                        /\ req[r].response.t = req[r].state._id

\* the task ids of the sessions that were created and whose state is no longer
\* in the store: a session's id is the second of the two uuid4 values
\* handle_view and _get_state draw for it
Finished == {uuid4(n) : n \in {m \in 1..uuids : m % 2 = 0}} \ DOMAIN state_store

\* C5: when the components leave COMPLETE and the state has an _on_complete,
\* handle returns a redirect to it and the task's state is gone from the
\* store; a later request with that task id fails with StateNotFound.
C5_CompletionDeletesState ==
    \A r \in Reqs :
        /\ (/\ req[r].pc = "done"
            /\ req[r].folded = COMPLETE
            /\ req[r].state._on_complete # "")
              => /\ req[r].raised = ""
                 /\ req[r].response = Redirect(req[r].state._on_complete, NoTask)
                 /\ req[r].state._id \notin DOMAIN state_store
                 /\ _get_state(req[r].state._id, FALSE, state_store, uuids).exc
                        = "StateNotFound"
        /\ (/\ req[r].pc # "idle"
            /\ req[r].has_param
            /\ req[r].task_id \in Finished
            /\ Calls(req[r].log, {"delete"}) = {})
              => /\ req[r].pc = "done"
                 /\ req[r].raised = "StateNotFound"

\* a request with the task id of a finished session has failed
C5_Witness ==
    \E r \in Reqs :
        /\ req[r].pc = "done"
        /\ req[r].has_param
        /\ req[r].task_id \in Finished
        /\ req[r].raised = "StateNotFound"

\* C6: when the components leave COMPLETE and the state has no _on_complete,
\* handle raises ImproperlyConfigured, returns nothing, and the task's state
\* stays in the store, where a later request finds it.
C6_CompletionWithoutDestination ==
    \A r \in Reqs :
        (/\ req[r].pc = "done"
         /\ req[r].folded = COMPLETE
         /\ req[r].state._on_complete = "")
           => /\ req[r].raised = "ImproperlyConfigured"
              /\ req[r].response = None
              /\ Calls(req[r].log, {"delete"}) = {}
              /\ _get_state(req[r].state._id, FALSE, state_store, uuids).exc = ""

\* a request on an existing session ended with COMPLETE and no _on_complete
C6_Witness ==
    \E r \in Reqs :
        /\ req[r].pc = "done"
        /\ req[r].has_param
        /\ req[r].folded = COMPLETE
        /\ req[r].state._on_complete = ""

\* C7: a request on an existing session that returns normally makes exactly
\* one put_state or delete, on its task id and after every handle_response: a
\* delete exactly when the components left COMPLETE, otherwise a put of the
\* state as the request left it; its get_state comes before every
\* precondition, prepare and dispatch.
C7_OneStoreWriteAfterFold ==
    \A r \in Reqs :
        (req[r].pc = "done" /\ req[r].raised = "" /\ req[r].has_param) =>
            LET log == req[r].log
                writes == Calls(log, {"put_state", "delete"})
            IN  /\ Cardinality(writes) = 1
                /\ Calls(log, {"handle_response"}) # {}
                /\ \A i \in writes :
                      /\ log[i].val = Key(req[r].task_id)
                      /\ \A j \in Calls(log, {"handle_response", "get_next"}) : j < i
                      /\ log[i].op = "delete" <=> req[r].folded = COMPLETE
                      /\ log[i].op = "delete" => req[r].task_id \notin DOMAIN state_store
                      /\ log[i].op = "put_state" =>
                            /\ req[r].task_id \in DOMAIN state_store
                            /\ state_store[req[r].task_id] = req[r].state
                /\ log[1] = Event("get_state", "", 0, Key(req[r].task_id))
                /\ \A j \in Calls(log, {"process", "prepare", "dispatch"}) : j > 1

\* a request on an existing session whose view set _on_complete was answered
\* with a redirect to another position
C7_Witness ==
    \E r \in Reqs :
        /\ req[r].pc = "done" /\ req[r].raised = "" /\ req[r].has_param
        /\ req[r].folded.k = "cls"
        /\ req[r].response.k = "redirect"
        /\ req[r].state._on_complete # ""
        /\ Calls(req[r].log, {"dispatch"}) # {}

\* C8: when COMPLETE reaches the handle_response of a Scaffold without a
\* transition, the request ends there with ImproperlyConfigured: no response,
\* no handle_response of a higher component, no store write, no redirect.
C8_MissingTransitionAborts ==
    \A r \in Reqs :
        \A i \in Calls(req[r].log, {"handle_response"}) :
            (/\ req[r].log[i].c \in Scaffolds
             /\ ~transition(req[r].log[i].c)
             /\ req[r].log[i].val = COMPLETE)
               => /\ i = Len(req[r].log)
                  /\ req[r].pc = "done"
                  /\ req[r].raised = "ImproperlyConfigured"
                  /\ req[r].response = None

\* the leaf's dispatch returned COMPLETE and its parent has no transition
C8_Witness ==
    \E r \in Reqs :
        LET log == req[r].log
            n == Len(req[r].position)
        IN  /\ req[r].pc = "done"
            /\ n >= 2
            /\ ~transition(req[r].position[n - 1])
            /\ \E i \in Calls(log, {"dispatch"}) : log[i].val = COMPLETE
            /\ log[Len(log)] =
                   Event("handle_response", req[r].position[n - 1], 0, COMPLETE)

\* C9: when the leaf returns COMPLETE and the transition of its parent
\* Scaffold returns a position, handle answers with a redirect to the absolute
\* url of that position with the request's task id, and the state is put to
\* the store.
C9_TransitionPositionRedirects ==
    \A r \in Reqs :
        LET log == req[r].log
            n == Len(req[r].position)
        IN  (/\ req[r].pc = "done"
             /\ \E i \in Calls(log, {"handle_response"}) :
                   log[i].c = Leaf(r) /\ log[i].val = COMPLETE
             /\ \E i \in Calls(log, {"get_next"}) :
                   /\ log[i].c = req[r].position[n - 1]
                   /\ log[i].val.k = "pos"
                   /\ log[i].val = req[r].folded)
               => /\ req[r].raised = ""
                  /\ req[r].response =
                        get_absolute_url(req[r].folded.v, req[r].state, urlpatterns).val
                  /\ req[r].state._id \in DOMAIN state_store
                  /\ state_store[req[r].state._id] = req[r].state

\* C10: the name of a registered component class, left by the components, is
\* resolved as the class itself is: the same response or the same error, and
\* the state is put to the store.
C10_NameResolvedLikeClass ==
    \A r \in Reqs :
        (/\ req[r].pc = "done"
         /\ req[r].folded.k = "str"
         /\ req[r].folded.v \in registry)
           => LET asClass == FinalResolution(req[r].position, req[r].state,
                                 Cls(req[r].folded.v), state_store,
                                 [ids |-> flow_ids, positions |-> all_positions],
                                 urlpatterns)
              IN  /\ req[r].raised = asClass.exc
                  /\ req[r].response = asClass.response
                  /\ req[r].state._id \in DOMAIN state_store
                  /\ state_store[req[r].state._id] = req[r].state

\* C11: a request adds its position instance to the history only when it is a
\* GET, the Action's dispatch ran, and what the user receives is no redirect.
C11_HistoryOnlyWhenShown ==
    \A r \in Reqs :
        Calls(req[r].log, {"add_to_history"}) # {} =>
            /\ req[r].method = "GET"
            /\ Calls(req[r].log, {"dispatch"}) # {}
            /\ (req[r].pc = "done" /\ req[r].raised = "")
                  => req[r].response.k # "redirect"

\* the format of a task id: 32 characters, each a lowercase hex digit
WellFormedTaskId(task_id) ==
    /\ Len(task_id) = TaskIdLen
    /\ \A i \in 1..Len(task_id) : task_id[i] \in HexChars

\* C12: for a malformed task id _get_state raises StateNotFound, with create
\* true or false, without a call of the store and without creating a state;
\* a request that carries such an id ends so.
C12_MalformedIdNeverReachesStore ==
    /\ \A task_id \in TaskParams, create \in BOOLEAN :
          (built /\ ~WellFormedTaskId(task_id)) =>
              LET got == _get_state(task_id, create, state_store, uuids)
              IN  /\ got.exc = "StateNotFound"
                  /\ got.log = <<>>
                  /\ got.store = state_store
                  /\ got.uuids = uuids
    /\ \A r \in Reqs :
          (req[r].pc # "idle" /\ ~WellFormedTaskId(req[r].task_id)) =>
              /\ req[r].pc = "done"
              /\ req[r].raised = "StateNotFound"
              /\ req[r].log = <<>>

\* the positions a registered entry point designates: its initial action tree
EntryPositions ==
    {get_initial_action_tree(entry_points[i]).tree : i \in 1..Len(entry_points)}

\* C13: a request to a position that is not an entry point's, without a task
\* id or with a well-formed one the store does not hold, fails with
\* StateNotFound and puts nothing into the store.
C13_StateCreatedOnlyAtEntryPoints ==
    \A r \in Reqs :
        (/\ req[r].pc # "idle"
         /\ req[r].position \notin EntryPositions
         /\ \/ ~req[r].has_param
            \/ /\ WellFormedTaskId(req[r].task_id)
               /\ Calls(req[r].log, {"delete"}) = {}
               /\ req[r].task_id \notin DOMAIN state_store)
           => /\ req[r].pc = "done"
              /\ req[r].raised = "StateNotFound"
              /\ Calls(req[r].log, {"put_state"}) = {}

\* C14: the registry all_positions keeps the object first stored under a
\* url_name: no construction of a PossibleFlowPosition puts a new object in
\* the place of one the registry holds.
C14_RegistryKeepsFirstObject ==
    \A r \in Reqs :
        \A i \in Calls(req[r].log, {"PossibleFlowPosition"}) : req[r].log[i].i = 0

\* tree starts at T, goes from each Scaffold to its first child, and ends in
\* an Action
IsInitialPath(T, tree) ==
    /\ Len(tree) >= 1
    /\ tree[1] = T
    /\ tree[Len(tree)] \in Actions
    /\ \A i \in 1..(Len(tree) - 1) :
          /\ tree[i] \in Scaffolds
          /\ Len(action_set(tree[i])) > 0
          /\ get_by_class_or_name(action_set(tree[i])[1]) =
                 [exc |-> "", cls |-> tree[i + 1]]

\* whether going to the first child from c, at most fuel times, ends in an
\* Action
RECURSIVE LeadsToAction(_, _)
LeadsToAction(c, fuel) ==
    \/ c \in Actions
    \/ /\ fuel > 0
       /\ Len(action_set(c)) > 0
       /\ get_by_class_or_name(action_set(c)[1]).exc = ""
       /\ LeadsToAction(get_by_class_or_name(action_set(c)[1]).cls, fuel - 1)

\* C16 as stated: get_initial_action_tree returns, for every component, a
\* list from the component through first children to an Action.
C16_InitialTreeEndsInAction ==
    \A r \in Reqs :
        \A i \in Calls(req[r].log, {"get_initial_action_tree"}) :
            /\ req[r].log[i].val.v = ""
            /\ IsInitialPath(req[r].log[i].c, req[r].log[i].val.t)

\* C16 amended: where the first children lead from the component to an
\* Action, get_initial_action_tree returns the list of them, children declared
\* by name included; where they lead to a Scaffold with an empty action_set it
\* raises IndexError and returns nothing.
C16_InitialTreeOrIndexError ==
    \A r \in Reqs :
        \A i \in Calls(req[r].log, {"get_initial_action_tree"}) :
            IF LeadsToAction(req[r].log[i].c, Cardinality(registry))
            THEN /\ req[r].log[i].val.v = ""
                 /\ IsInitialPath(req[r].log[i].c, req[r].log[i].val.t)
            ELSE req[r].log[i].val = Tree("IndexError", <<>>)

\* a redirect to the Scaffold B, whose first child is declared by name, was
\* resolved
C16_Witness ==
    \E r \in Reqs :
        /\ req[r].pc = "done" /\ req[r].raised = ""
        /\ \E i \in Calls(req[r].log, {"get_initial_action_tree"}) :
              /\ req[r].log[i].c = "B"
              /\ req[r].log[i].val = Tree("", <<"B", "L2">>)

\* a path of Scaffolds that ends in an Action, each component a child of the
\* one before it
WellFormedPosition(components) ==
    /\ Len(components) >= 1
    /\ components[Len(components)] \in Actions
    /\ \A i \in 1..(Len(components) - 1) :
          /\ components[i] \in Scaffolds
          /\ IsChild(components[i], components[i + 1])

\* C17: every position in the registry all_positions is a well-formed path
\* from a root to an Action.
C17_RegistryHoldsWellFormedPaths ==
    \A n \in DOMAIN all_positions : WellFormedPosition(all_positions[n])

\* the classes that have a short code, and the paths of them
Named(ids) == {F \in NamedFlows : FlowKey(F) \in DOMAIN ids}

PathsOf(ids) == {path \in NamedPaths : \A i \in 1..Len(path) : path[i] \in Named(ids)}

\* the url_name of a path
NameOf(path, ids) == url_name_from_components(path, ids).name

\* a short code, once assigned, stays, and so does the url_name of a path
\* whose classes have short codes
CodesStay ==
    /\ \A key \in DOMAIN flow_ids :
          key \in DOMAIN flow_ids' /\ flow_ids'[key] = flow_ids[key]
    /\ \A path \in PathsOf(flow_ids) :
          NameOf(path, flow_ids') = NameOf(path, flow_ids)

\* C15: short codes never change, two distinct classes never share a
\* short code, and two different paths never share a url_name.
C15_NamesStableAndDistinct ==
    /\ [][CodesStay]_vars
    /\ [](\A F1, F2 \in Named(flow_ids) :
             F1 # F2 => flow_ids[FlowKey(F1)] # flow_ids[FlowKey(F2)])
    /\ [](\A p1, p2 \in PathsOf(flow_ids) :
             p1 # p2 => NameOf(p1, flow_ids) # NameOf(p2, flow_ids))

\* the request ended inside dispatch, with what send_to raised: after a
\* dispatch that returns, the leaf's handle_response always follows
RaisedInDispatch(r) ==
    /\ req[r].pc = "done"
    /\ req[r].log # <<>>
    /\ req[r].log[Len(req[r].log)].op = "dispatch"

\* the requests whose handle came to the handle_response loop
InFold(r) ==
    /\ req[r].pc \in {"resolve", "done"}
    /\ req[r].raised # "StateNotFound"
    /\ ~RaisedInDispatch(r)

\* the place in the log of the k-th handle_response call
NthResponse(log, k) ==
    CHOOSE j \in Calls(log, {"handle_response"}) :
        Cardinality({i \in Calls(log, {"handle_response"}) : i <= j}) = k

\* what the handle_response call recorded at place j returned: what its
\* transition gave if it was asked, else what the call received
Returned(log, j) ==
    IF j < Len(log) /\ log[j + 1].op = "get_next" THEN log[j + 1].val ELSE log[j].val

\* the calls of handle_response go up from the leaf, each receives what the
\* one below returned, the leaf what prepare or dispatch gave, and a
\* transition is asked only by a Scaffold that received COMPLETE
FoldGoesUp(r) ==
    LET log == req[r].log
        n == Len(req[r].position)
        m == Cardinality(Calls(log, {"handle_response"}))
        gave == Answers(log, {"prepare"}) \cup Calls(log, {"dispatch"})
    IN  /\ m \in 1..n
        /\ \A k \in 1..m : log[NthResponse(log, k)].c = req[r].position[n - k + 1]
        /\ gave # {}
        /\ log[NthResponse(log, 1)].val = log[Greatest(gave)].val
        /\ \A k \in 2..m :
              log[NthResponse(log, k)].val = Returned(log, NthResponse(log, k - 1))
        /\ \A j \in Calls(log, {"get_next"}) :
              /\ log[j - 1].op = "handle_response"
              /\ log[j - 1].c = log[j].c
              /\ log[j].c \in Scaffolds
              /\ log[j - 1].val = COMPLETE
        /\ req[r].raised # "ImproperlyConfigured" =>
              req[r].folded = Returned(log, NthResponse(log, m))

\* C18 as stated: handle_response is called exactly once on each component of
\* the position, from the leaf up, each call receiving what the one below
\* returned; a Scaffold passes on what is not COMPLETE.
C18_FoldVisitsEveryComponent ==
    \A r \in Reqs :
        InFold(r) =>
            /\ FoldGoesUp(r)
            /\ Cardinality(Calls(req[r].log, {"handle_response"}))
                   = Len(req[r].position)

\* C18 amended: the calls go from the leaf up, each receiving what the one
\* below returned, at most once on each component; they reach the root unless
\* a Scaffold without a transition receives COMPLETE, whose call is then the
\* last and ends the request with ImproperlyConfigured.
C18_FoldGoesUpUntilAbort ==
    \A r \in Reqs :
        InFold(r) =>
            LET log == req[r].log
                m == Cardinality(Calls(log, {"handle_response"}))
                last == log[NthResponse(log, m)]
                aborts == /\ last.c \in Scaffolds
                          /\ ~transition(last.c)
                          /\ last.val = COMPLETE
            IN  /\ FoldGoesUp(r)
                /\ IF aborts
                   THEN /\ req[r].pc = "done"
                        /\ req[r].raised = "ImproperlyConfigured"
                        /\ NthResponse(log, m) = Len(log)
                   ELSE m = Len(req[r].position)

\* a fold of three calls in which the Scaffold A asked its transition and the
\* root passed on what A returned
C18_Witness ==
    \E r \in Reqs :
        /\ InFold(r) /\ req[r].raised = ""
        /\ Len(req[r].position) = 3
        /\ \E j \in Calls(req[r].log, {"get_next"}) :
              /\ req[r].log[j].c = req[r].position[2]
              /\ req[r].log[j].val.k = "cls"
              /\ req[r].folded = req[r].log[j].val

\* C19: every state in the store is stored under its own _id, a well-formed
\* task id, and every put_state and delete of a request is made with the _id
\* of the request's state.
C19_StoredUnderOwnId ==
    /\ \A key \in DOMAIN state_store :
          /\ state_store[key]._id = key
          /\ WellFormedTaskId(key)
    /\ \A r \in Reqs :
          \A i \in Calls(req[r].log, {"put_state", "delete"}) :
              req[r].log[i].val = Key(req[r].state._id)

\* a state the view changed was put back by a later request of the session
C19_Witness ==
    \E r \in Reqs :
        /\ req[r].pc = "done" /\ req[r].has_param
        /\ req[r].task_id \in DOMAIN state_store
        /\ state_store[req[r].task_id]._on_complete # ""
        /\ req[r].loaded._on_complete = ""

\* C20: a request on an existing session that ends with an error has put
\* nothing: the store holds for the session what it held when the request
\* loaded the state.
C20_ErrorLeavesStoreUntouched ==
    \A r \in Reqs :
        (/\ req[r].pc = "done"
         /\ req[r].has_param
         /\ req[r].raised \notin {"", "StateNotFound"})
           => /\ req[r].task_id \in DOMAIN state_store
              /\ state_store[req[r].task_id] = req[r].loaded

\* the ids of the sessions that may be created
SessionIds == {uuid4(2 * j) : j \in 1..MaxSessions}

\* request r returned normally after it put its state
PutAndReturned(r) ==
    /\ req[r].pc = "done"
    /\ req[r].raised = ""
    /\ Calls(req[r].log, {"put_state"}) # {}

\* C21: a request that writes its state back leaves in the store exactly
\* the blob it holds, whatever another request stored there since it read
\* (last write wins); no step of handle_view or handle waits for or checks
\* the other request.
C21_LastWriteWins ==
    [][\A r \in Reqs :
          (/\ req[r].pc = "resolve"
           /\ req'[r].pc = "done"
           /\ req[r].response # COMPLETE)
             => /\ req[r].state._id \in DOMAIN state_store'
                /\ state_store'[req[r].state._id] = req[r].state]_vars

\* the lost update: both requests read the same state of one session, both
\* put and returned a page, "r1" set _on_complete and the store holds the
\* blob of "r2" without it
C21_Witness ==
    /\ PutAndReturned("r1") /\ PutAndReturned("r2")
    /\ req["r1"].folded = Resp("page") /\ req["r2"].folded = Resp("page")
    /\ req["r1"].state._id = req["r2"].state._id
    /\ req["r1"].loaded = req["r2"].loaded
    /\ req["r1"].loaded._on_complete = ""
    /\ req["r1"].state._on_complete = "/done/"
    /\ req["r2"].state._on_complete = ""
    /\ req["r1"].state._id \in DOMAIN state_store
    /\ state_store[req["r1"].state._id] = req["r2"].state

\* the state of session key was created and is no longer stored: it was
\* deleted by a request that completed the whole flow, the only delete there
\* is (handler.py line 249); _get_state puts a new state in the step that
\* draws its id
DeletedOnCompletion(key) ==
    /\ \E n \in 1..uuids : key = uuid4(n)
    /\ key \notin DOMAIN state_store

\* C22: once a request has completed the whole flow of a session and deleted
\* its state, the store never again holds an entry for that task id, under
\* every interleaving of the requests that carry it.
C22_DeletedStateStaysDeleted ==
    [][\A key \in SessionIds :
          DeletedOnCompletion(key) => DeletedOnCompletion(key)']_vars

====
